---- MODULE Spec2Model ----
(***************************************************************************)
(* Model of dashboard_fiscal_streamlit.py: one run of the script over one  *)
(* loaded table.  The script is a straight-line pipeline; every section of *)
(* the script is one action, guarded by the program counter pc.            *)
(*                                                                         *)
(* Money amounts are integers.  Growth rates, volatility and projected     *)
(* values are floats in the script; here they are extended fixed-point     *)
(* numbers (Scale units per 1.0) with the IEEE values NaN, +inf and -inf,  *)
(* which is what numpy produces instead of raising.                        *)
(***************************************************************************)
EXTENDS Integers, Sequences, FiniteSets, TLC

\* ------------------------------------------------------------------ bounds
MaxCols == 2     \* columns of a table of the column-name family
MaxRows == 2     \* rows of a table of the row-content families
MaxMonth == 3    \* calendar months a table's dates span
MaxMeses == 3    \* largest slider position explored (the slider goes to 24)
Scale == 100     \* fixed-point units per 1.0

\* ------------------------------------------------------- program constants
MinMeses == 3    \* st.slider(..., 3, 24, 12)
TopN == 5        \* clientes.head(5)

\* ------------------------------------------------------------------ strings
None == ""

Char(s, i) == SubSeq(s, i, i)

UpperChars == "ABCDEFGHIJKLMNOPQRSTUVWXYZÃ"
LowerChars == "abcdefghijklmnopqrstuvwxyzã"

\* str.lower() on one character
LowerChar(c) ==
    IF \E i \in 1..Len(UpperChars) : Char(UpperChars, i) = c
    THEN Char(LowerChars, CHOOSE i \in 1..Len(UpperChars) : Char(UpperChars, i) = c)
    ELSE c

RECURSIVE MapChars(_, _)
\* apply a per-character conversion along a string; which \in {"lower", "space"}
MapChars(s, which) ==
    IF Len(s) = 0 THEN ""
    ELSE LET c == Head(s)
             d == IF which = "lower" THEN LowerChar(c)
                  ELSE IF c = " " THEN "_" ELSE c
         IN  d \o MapChars(Tail(s), which)

\* str.lower()
Lower(s) == MapChars(s, "lower")

\* str.replace(" ", "_")
ReplaceSpaces(s) == MapChars(s, "space")

RECURSIVE StripLeft(_)
StripLeft(s) == IF Len(s) > 0 /\ Head(s) = " " THEN StripLeft(Tail(s)) ELSE s

RECURSIVE StripRight(_)
StripRight(s) ==
    IF Len(s) > 0 /\ Char(s, Len(s)) = " "
    THEN StripRight(SubSeq(s, 1, Len(s) - 1)) ELSE s

\* str.strip()
Strip(s) == StripRight(StripLeft(s))

\* a variant without the strip()
NormalizeColumnNoStrip(c) == ReplaceSpaces(Lower(c))
\* c.lower().strip().replace(" ", "_")
NormalizeColumn(c) == ReplaceSpaces(Strip(Lower(c)))

\* ------------------------------------------------------------- the mapping
Fields == {"data", "valor", "cliente", "produto", "cfop", "cst"}

MAP ==
    [k \in Fields |->
        CASE k = "data"    -> <<"data", "data_emissao", "dt_emissao">>
          [] k = "valor"   -> <<"total", "valor_total", "valor_nf">>
          [] k = "cliente" -> <<"cliente", "razao_social", "razão_social/nome">>
          [] k = "produto" -> <<"produto", "descricao_produto", "item", "servico">>
          [] k = "cfop"    -> <<"cfop">>
          [] k = "cst"     -> <<"cst">>]

InColumns(p, cols) == \E j \in 1..Len(cols) : cols[j] = p

\* a variant that returns the last candidate present instead of the first
find_col_last(possibilities, cols) ==
    IF \E i \in 1..Len(possibilities) : InColumns(possibilities[i], cols)
    THEN possibilities[CHOOSE i \in 1..Len(possibilities) :
            /\ InColumns(possibilities[i], cols)
            /\ \A h \in (i+1)..Len(possibilities) : ~InColumns(possibilities[h], cols)]
    ELSE None

\* find_col: the first candidate that is a column, None when there is none
find_col(possibilities, cols) ==
    IF \E i \in 1..Len(possibilities) : InColumns(possibilities[i], cols)
    THEN possibilities[CHOOSE i \in 1..Len(possibilities) :
            /\ InColumns(possibilities[i], cols)
            /\ \A h \in 1..(i-1) : ~InColumns(possibilities[h], cols)]
    ELSE None

required_cols == <<"valor", "cliente">>

\* a variant that only checks the first required field
MissingFirstOnly(c) ==
    SelectSeq(SubSeq(required_cols, 1, 1), LAMBDA k : c[k] = None)

\* missing = [c for c in required_cols if col[c] is None]
Missing(c) == SelectSeq(required_cols, LAMBDA k : c[k] = None)

\* -------------------------------------------------------------------- cells
\* A cell of the loaded table: a date (its calendar month), a number, a
\* string (a customer, product or code, by its number), a text that is
\* neither a date nor a number, or an empty cell (NaN / NaT).
D(m) == [t |-> "date", v |-> m]
N(n) == [t |-> "num", v |-> n]
S(k) == [t |-> "str", v |-> k]
Txt == [t |-> "txt", v |-> 0]
Null == [t |-> "null", v |-> 0]

IsNull(c) == c.t = "null"

\* pd.to_datetime(x, errors="coerce") on one cell
ToDatetime(c) == IF c.t = "date" THEN c ELSE Null

\* a variant without the fillna(0)
ToNumericNoFill(c) == IF c.t = "num" THEN c ELSE Null

\* pd.to_numeric(x, errors="coerce").fillna(0) on one cell
ToNumeric(c) == IF c.t = "num" THEN c ELSE N(0)

\* ------------------------------------------------------------ input tables
\* Column names a file may carry, by what the column holds.  No two of them
\* normalise to the same name.
DateNames == {"Data", "DATA EMISSAO", "dt_emissao"}
ValorNames == {"Total", " Valor Total ", "valor_nf", "VALOR-TOTAL", "Valor"}
ClienteNames ==
    {"Cliente", "razao_social", "Razão Social/Nome", "RAZAOSOCIAL",
     "Razao Social/Nome"}
ProdutoNames == {"Produto", "Item"}
CodeNames == {"CFOP", "CST"}
OtherNames == {"Obs"}
\* the names the layouts of the column-name family are made of
Pool ==
    {"Data", "DATA EMISSAO"} \cup ValorNames \cup ClienteNames
        \cup {"Item", "CFOP", "Obs"}

\* what one row holds, by kind of column
CellFor(name, c) ==
    CASE name \in DateNames    -> c.date
      [] name \in ValorNames   -> c.amt
      [] name \in ClienteNames -> c.cust
      [] name \in ProdutoNames -> c.prod
      [] name \in CodeNames    -> S(1)
      [] OTHER                 -> Txt

RowOf(layout, c) == [j \in 1..Len(layout) |-> CellFor(layout[j], c)]

Table(layout, contents) ==
    [cols |-> layout,
     rows |-> [i \in 1..Len(contents) |-> RowOf(layout, contents[i])]]

SeqsUpTo(set, n) == UNION {[1..k -> set] : k \in 0..n}

Layouts(n) ==
    {l \in SeqsUpTo(Pool, n) : \A i, j \in 1..Len(l) : i # j => l[i] # l[j]}

FullLayout == <<"DATA EMISSAO", " Valor Total ", "Cliente", "Produto", "CFOP", "CST">>
NoDateLayout == <<"Cliente", "Total", "Item">>
DatedLayout == <<"Data", "Total", "Cliente">>

\* column-name family: every layout of up to MaxCols names, one plain row
NameTables ==
    {Table(l, <<[date |-> D(1), amt |-> N(2), cust |-> S(1), prod |-> S(1)]>>) :
        l \in Layouts(MaxCols)}

\* date family: up to MaxRows rows whose dates parse or do not
DateContents ==
    [date : {D(1), D(2), Txt, Null}, amt : {N(1), Txt},
     cust : {S(1), S(2)}, prod : {S(1)}]
DateTables == {Table(FullLayout, c) : c \in SeqsUpTo(DateContents, MaxRows)}

\* amount family: up to MaxRows rows whose amounts parse or do not
AmountContents ==
    [date : {D(1)}, amt : {N(-1), N(2), Txt, Null},
     cust : {S(1), S(2), Null}, prod : {S(1)}]
AmountTables ==
    {Table(NoDateLayout, c) : c \in SeqsUpTo(AmountContents, MaxRows)}

\* ranking family: TopN + 1 customers, one row each, two products
RankAmounts == {-1, 1, 2}
RankTables ==
    {Table(NoDateLayout,
           [i \in 1..(TopN + 1) |->
               [date |-> D(1), amt |-> N(a[i]), cust |-> S(i),
                prod |-> S(1 + (i % 2))]]) :
        a \in [1..(TopN + 1) -> RankAmounts]}

\* monthly family: at most one invoice in each of the months 1..MaxMonth
MonthAmounts == {0, 1, 2, 3}
RECURSIVE MonthRows(_, _)
MonthRows(f, m) ==
    IF m > MaxMonth THEN <<>>
    ELSE (IF f[m].has
          THEN <<[date |-> D(m), amt |-> N(f[m].amt), cust |-> S(1), prod |-> S(1)]>>
          ELSE <<>>)
         \o MonthRows(f, m + 1)
MonthTables ==
    {Table(DatedLayout, MonthRows(f, 1)) :
        f \in [1..MaxMonth -> [has : BOOLEAN, amt : MonthAmounts]]}

InputTables ==
    NameTables \cup DateTables \cup AmountTables \cup RankTables \cup MonthTables

\* ------------------------------------------------------ table operations
ColIdx(cols, name) == CHOOSE j \in 1..Len(cols) : cols[j] = name

\* df[name] of one row
Cell(cols, row, name) == row[ColIdx(cols, name)]

RECURSIVE SumSeq(_)
SumSeq(s) == IF Len(s) = 0 THEN 0 ELSE Head(s) + SumSeq(Tail(s))

\* df[name] as a sequence of numbers (the column is numeric by then)
Values(cols, rows, name) == [i \in 1..Len(rows) |-> Cell(cols, rows[i], name).v]

\* df.dropna(subset=[name])
DropNa(cols, rows, name) ==
    SelectSeq(rows, LAMBDA r : ~IsNull(Cell(cols, r, name)))

\* df[name] = cells
ReplaceColumn(cols, rows, name, cells) ==
    [i \in 1..Len(rows) |->
        [j \in 1..Len(cols) |->
            IF j = ColIdx(cols, name) THEN cells[i] ELSE rows[i][j]]]

\* df[name] = pd.to_datetime(df[name], errors="coerce")
ParseDates(cols, rows, name) ==
    ReplaceColumn(cols, rows, name,
                  [i \in 1..Len(rows) |-> ToDatetime(Cell(cols, rows[i], name))])

\* df[name].nunique(): distinct non-null values
NUnique(cols, rows, name) ==
    Cardinality({Cell(cols, rows[i], name) : i \in 1..Len(rows)} \ {Null})

\* the keys of df.groupby(name): distinct non-null values, in key order
GroupKeys(cols, rows, name) ==
    {Cell(cols, rows[i], name).v : i \in {h \in 1..Len(rows) : ~IsNull(Cell(cols, rows[h], name))}}

GroupTotal(cols, rows, name, valor, k) ==
    SumSeq(Values(cols,
                  SelectSeq(rows, LAMBDA r : Cell(cols, r, name) = S(k)),
                  valor))

RECURSIVE KeysInOrder(_)
KeysInOrder(ks) ==
    IF ks = {} THEN <<>>
    ELSE LET k == CHOOSE x \in ks : \A y \in ks : x <= y
         IN  <<k>> \o KeysInOrder(ks \ {k})

\* df.groupby(name)[valor].sum(): one entry per key, in key order
GroupSum(cols, rows, name, valor) ==
    LET ks == KeysInOrder(GroupKeys(cols, rows, name))
    IN  [i \in 1..Len(ks) |->
            [key |-> ks[i], valor |-> GroupTotal(cols, rows, name, valor, ks[i])]]

RECURSIVE InsertDesc(_, _)
InsertDesc(sorted, e) ==
    IF Len(sorted) = 0 THEN <<e>>
    ELSE IF Head(sorted).valor >= e.valor
         THEN <<Head(sorted)>> \o InsertDesc(Tail(sorted), e)
         ELSE <<e>> \o sorted

RECURSIVE SortAscending(_)
\* a variant that sorts ascending
SortAscending(s) ==
    IF Len(s) = 0 THEN <<>>
    ELSE LET rest == SortAscending(Tail(s))
             lower == SelectSeq(rest, LAMBDA e : e.valor < Head(s).valor)
             upper == SelectSeq(rest, LAMBDA e : e.valor >= Head(s).valor)
         IN  lower \o <<Head(s)>> \o upper

RECURSIVE SortValuesDesc(_)
\* .sort_values(ascending=False); equal values keep their key order, as the
\* insertion sort numpy runs on short arrays leaves them
SortValuesDesc(s) ==
    IF Len(s) = 0 THEN <<>>
    ELSE InsertDesc(SortValuesDesc(SubSeq(s, 1, Len(s) - 1)), s[Len(s)])

\* ------------------------------------------------------------ float ratios
\* A quotient of two integer amounts as numpy computes it: a fraction n/d, or
\* NaN, +inf, -inf when the divisor is 0 (numpy warns, it does not raise).
Frac(n, d) == [k |-> "fin", n |-> n, d |-> d]
RNaN == [k |-> "nan", n |-> 0, d |-> 1]
RInf == [k |-> "inf", n |-> 0, d |-> 1]
RNegInf == [k |-> "ninf", n |-> 0, d |-> 1]

\* a / b
Quot(a, b) ==
    IF b # 0 THEN Frac(a, b)
    ELSE IF a > 0 THEN RInf ELSE IF a < 0 THEN RNegInf ELSE RNaN

\* x + y, for fractions of one denominator
RAdd(x, y) ==
    CASE x.k = "nan" \/ y.k = "nan" -> RNaN
      [] x.k = "fin" /\ y.k = "fin" -> Frac(x.n + y.n, x.d)
      [] x.k = "fin" -> y
      [] y.k = "fin" -> x
      [] x.k = y.k -> x
      [] OTHER -> RNaN

\* x <= a / b for positive integers a and b; false for NaN
RLeq(x, a, b) ==
    CASE x.k = "fin" -> IF x.d > 0 THEN x.n * b <= a * x.d ELSE x.n * b >= a * x.d
      [] x.k = "ninf" -> TRUE
      [] OTHER -> FALSE

\* x > a / b for positive integers a and b; false for NaN
RGt(x, a, b) ==
    CASE x.k = "fin" -> IF x.d > 0 THEN x.n * b > a * x.d ELSE x.n * b < a * x.d
      [] x.k = "inf" -> TRUE
      [] OTHER -> FALSE

\* ------------------------------------------------------------- ABC curve
\* classifica_abc
classifica_abc(x) ==
    IF RLeq(x, 4, 5) THEN "A" ELSE IF RLeq(x, 19, 20) THEN "B" ELSE "C"

RECURSIVE RunningSum(_, _)
\* Series.cumsum(): NaN entries are skipped by the running sum and stay NaN
RunningSum(shares, acc) ==
    IF Len(shares) = 0 THEN <<>>
    ELSE LET x == Head(shares)
             next == IF x.k = "nan" THEN acc ELSE RAdd(acc, x)
         IN  <<IF x.k = "nan" THEN RNaN ELSE next>> \o RunningSum(Tail(shares), next)

CumSum(shares, total) == RunningSum(shares, Frac(0, IF total = 0 THEN 1 ELSE total))

\* groupby(name)[valor].sum().sort_values(ascending=False).reset_index(), then
\* the columns %_participacao, %_acumulado and classe_abc
AbcTable(cols, rows, name, valor) ==
    LET g == SortValuesDesc(GroupSum(cols, rows, name, valor))
        total == SumSeq([i \in 1..Len(g) |-> g[i].valor])
        part == [i \in 1..Len(g) |-> Quot(g[i].valor, total)]
        acum == CumSum(part, total)
    IN  [i \in 1..Len(g) |->
            [key |-> g[i].key, valor |-> g[i].valor, participacao |-> part[i],
             acumulado |-> acum[i], classe_abc |-> classifica_abc(acum[i])]]

\* clientes.head(5)
HeadRows(t, n) == SubSeq(t, 1, IF Len(t) < n THEN Len(t) ELSE n)

\* the three branches on concentracao
RiskTier(c) ==
    IF RGt(c, 3, 5) THEN "alto" ELSE IF RGt(c, 2, 5) THEN "moderado" ELSE "baixo"

\* ----------------------------------------------------------- float values
\* A float of the projection: v / Scale, or NaN, +inf, -inf.
Fin(v) == [k |-> "fin", v |-> v]
NaN == [k |-> "nan", v |-> 0]
Inf == [k |-> "inf", v |-> 0]
NegInf == [k |-> "ninf", v |-> 0]

IsFinite(x) == x.k = "fin"
IsDefined(x) == x.k # "nan"

FloorDiv(a, b) == IF b > 0 THEN a \div b ELSE (-a) \div (-b)

Sign(x) ==
    CASE x.k = "inf" -> 1
      [] x.k = "ninf" -> -1
      [] OTHER -> IF x.v > 0 THEN 1 ELSE IF x.v < 0 THEN -1 ELSE 0

XNeg(x) ==
    CASE x.k = "fin" -> Fin(-x.v)
      [] x.k = "inf" -> NegInf
      [] x.k = "ninf" -> Inf
      [] OTHER -> NaN

XAdd(x, y) ==
    CASE x.k = "nan" \/ y.k = "nan" -> NaN
      [] x.k = "fin" /\ y.k = "fin" -> Fin(x.v + y.v)
      [] x.k = "fin" -> y
      [] y.k = "fin" -> x
      [] x.k = y.k -> x
      [] OTHER -> NaN

XSub(x, y) == XAdd(x, XNeg(y))

XMul(x, y) ==
    CASE x.k = "nan" \/ y.k = "nan" -> NaN
      [] x.k = "fin" /\ y.k = "fin" -> Fin(FloorDiv(x.v * y.v, Scale))
      [] Sign(x) * Sign(y) > 0 -> Inf
      [] Sign(x) * Sign(y) < 0 -> NegInf
      [] OTHER -> NaN

One == Fin(Scale)

\* x * 0.75
ThreeQuarters(x) == IF x.k = "fin" THEN Fin(FloorDiv(3 * x.v, 4)) ELSE x

RECURSIVE SqrtBetween(_, _, _)
\* the integer square root of n, between lo (lo * lo <= n) and hi (n < hi * hi)
SqrtBetween(n, lo, hi) ==
    IF hi - lo <= 1 THEN lo
    ELSE LET mid == (lo + hi) \div 2
         IN  IF mid * mid <= n THEN SqrtBetween(n, mid, hi)
             ELSE SqrtBetween(n, lo, mid)

ISqrt(n) == SqrtBetween(n, 0, IF n < 40000 THEN n + 1 ELSE 40000)

\* ----------------------------------------------------------- monthly series
Months(cols, rows, data) == {Cell(cols, rows[i], data).v : i \in 1..Len(rows)}

MinOf(set) == CHOOSE x \in set : \A y \in set : x <= y
MaxOf(set) == CHOOSE x \in set : \A y \in set : x >= y

\* df.set_index(data).resample("M")[valor].sum(): one entry per calendar month
\* from the first to the last month with a row, 0 for a month without rows
Resample(cols, rows, data, valor) ==
    LET ms == Months(cols, rows, data)
    IN  IF ms = {} THEN <<>>
        ELSE [i \in 1..(MaxOf(ms) - MinOf(ms) + 1) |->
                [mes |-> MinOf(ms) + i - 1,
                 valor |-> SumSeq(Values(cols,
                              SelectSeq(rows,
                                  LAMBDA r : Cell(cols, r, data) = D(MinOf(ms) + i - 1)),
                              valor))]]

\* ------------------------------------------------------------- projections
\* one step of Series.pct_change(): cur / prev - 1
PctStep(prev, cur) ==
    IF prev # 0 THEN Fin(FloorDiv(cur * Scale, prev) - Scale)
    ELSE IF cur > 0 THEN Inf ELSE IF cur < 0 THEN NegInf ELSE NaN

\* mensal.pct_change().dropna(): the first entry and every NaN step are dropped
PctChange(m) ==
    SelectSeq([i \in 1..(IF Len(m) = 0 THEN 0 ELSE Len(m) - 1) |->
                  PctStep(m[i].valor, m[i + 1].valor)],
              IsDefined)

RECURSIVE XSum(_)
XSum(s) == IF Len(s) = 0 THEN Fin(0) ELSE XAdd(Head(s), XSum(Tail(s)))

\* Series.mean() of a non-empty series
Mean(s) ==
    LET t == XSum(s) IN IF t.k = "fin" THEN Fin(FloorDiv(t.v, Len(s))) ELSE t

\* Series.std(): the sample standard deviation, NaN for fewer than 2 values
\* and whenever a value is infinite
Std(s) ==
    IF Len(s) < 2 \/ \E i \in 1..Len(s) : ~IsFinite(s[i]) THEN NaN
    ELSE LET n == Len(s)
             sum == SumSeq([i \in 1..n |-> s[i].v])
             squares == SumSeq([i \in 1..n |-> s[i].v * s[i].v])
         IN  Fin(ISqrt((n * squares - sum * sum) \div (n * (n - 1))))

ScenarioNames == {"Conservador", "Base", "Otimista"}

\* cenarios
Cenarios(media, vol) ==
    [nome \in ScenarioNames |->
        CASE nome = "Conservador" -> XSub(media, ThreeQuarters(vol))
          [] nome = "Base" -> media
          [] nome = "Otimista" -> XAdd(media, ThreeQuarters(vol))]

RECURSIVE Valores(_, _, _)
\* valores after the loop: the anchor followed by n compounded values
Valores(ultimo, taxa, n) ==
    IF n = 0 THEN <<ultimo>>
    ELSE LET before == Valores(ultimo, taxa, n - 1)
         IN  Append(before, XMul(before[Len(before)], XAdd(One, taxa)))

\* a variant that keeps the anchor and drops the last value
CompoundWithAnchor(ultimo, taxa, n) == SubSeq(Valores(ultimo, taxa, n), 1, n)

\* valores[1:]
Compound(ultimo, taxa, n) == Tail(Valores(ultimo, taxa, n))

\* -------------------------------------------------------------------- state
VARIABLES
    pc,                 \* the section of the script that runs next
    raw,                \* the table as loaded: [cols, rows]; never changed
    columns,            \* df.columns
    df,                 \* the rows of df
    col,                \* the field map
    missing,            \* the required fields without a column
    faturamento_total, qtd_notas, qtd_clientes,
    mensal,             \* the monthly series
    clientes, produtos, \* the ABC tables
    concentracao, risco,
    proj,               \* what the projection section computed
    out                 \* what was rendered on the page

vars ==
    <<pc, raw, columns, df, col, missing, faturamento_total, qtd_notas,
      qtd_clientes, mensal, clientes, produtos, concentracao, risco, proj, out>>

NoProj ==
    [mensal_pct |-> <<>>, crescimento_medio |-> NaN, volatilidade |-> NaN,
     meses_proj |-> 0, ultimo_valor |-> NaN,
     cenarios |-> [nome \in ScenarioNames |-> NaN],
     projecoes |-> [nome \in ScenarioNames |-> <<>>],
     index_future |-> <<>>, taxa_planejada |-> NaN, planejado |-> <<>>]

\* the growth rates the user may type into the simulator, besides the default
PlanRates == {Fin(-(Scale \div 2)), Fin(0), Fin(Scale \div 10)}

Init ==
    /\ raw \in InputTables
    /\ columns = raw.cols
    /\ df = raw.rows
    /\ pc = "normalizar"
    /\ col = [k \in Fields |-> None]
    /\ missing = <<>>
    /\ faturamento_total = 0
    /\ qtd_notas = 0
    /\ qtd_clientes = 0
    /\ mensal = <<>>
    /\ clientes = <<>>
    /\ produtos = <<>>
    /\ concentracao = RNaN
    /\ risco = "nenhum"
    /\ proj = NoProj
    /\ out = {}

\* ------------------------------------------------------------------ actions
\* line 64
NormalizeColumns ==
    /\ pc = "normalizar"
    /\ columns' = [j \in 1..Len(columns) |-> NormalizeColumn(columns[j])]
    /\ pc' = "mapear"
    /\ UNCHANGED <<raw, df, col, missing, faturamento_total, qtd_notas,
                   qtd_clientes, mensal, clientes, produtos, concentracao,
                   risco, proj, out>>

\* lines 66-85: the first mapping, then the date column is parsed and the
\* rows whose date is NaT are dropped
FirstMapping ==
    /\ pc = "mapear"
    /\ LET c == [k \in Fields |-> find_col(MAP[k], columns)]
       IN  /\ col' = c
           /\ df' = IF c["data"] # None
                    THEN DropNa(columns, ParseDates(columns, df, c["data"]), c["data"])
                    ELSE df
    /\ pc' = "mapear_flexivel"
    /\ UNCHANGED <<raw, columns, missing, faturamento_total, qtd_notas,
                   qtd_clientes, mensal, clientes, produtos, concentracao,
                   risco, proj, out>>

\* lines 91-106
FlexibleMapping ==
    /\ pc = "mapear_flexivel"
    /\ col' = [k \in Fields |-> find_col(MAP[k], columns)]
    /\ pc' = "validar"
    /\ UNCHANGED <<raw, columns, df, missing, faturamento_total, qtd_notas,
                   qtd_clientes, mensal, clientes, produtos, concentracao,
                   risco, proj, out>>

\* lines 112-118, a required field is missing: st.error and st.stop()
ValidateStop ==
    /\ pc = "validar"
    /\ Missing(col) # <<>>
    /\ missing' = Missing(col)
    /\ out' = out \cup {"erro_colunas"}
    /\ pc' = "parado"
    /\ UNCHANGED <<raw, columns, df, col, faturamento_total, qtd_notas,
                   qtd_clientes, mensal, clientes, produtos, concentracao,
                   risco, proj>>

\* lines 112-116, nothing is missing
ValidatePass ==
    /\ pc = "validar"
    /\ Missing(col) = <<>>
    /\ missing' = Missing(col)
    /\ pc' = "converter"
    /\ UNCHANGED <<raw, columns, df, col, faturamento_total, qtd_notas,
                   qtd_clientes, mensal, clientes, produtos, concentracao,
                   risco, proj, out>>

\* a variant that drops the rows whose amount does not parse
CoerceValorDropping(cols, rows, name) ==
    DropNa(cols,
           ReplaceColumn(cols, rows, name,
               [i \in 1..Len(rows) |-> ToNumericNoFill(Cell(cols, rows[i], name))]),
           name)

\* line 121
CoerceValor(cols, rows, name) ==
    ReplaceColumn(cols, rows, name,
                  [i \in 1..Len(rows) |-> ToNumeric(Cell(cols, rows[i], name))])

\* lines 121-125
CoerceTypes ==
    /\ pc = "converter"
    /\ LET numeric == CoerceValor(columns, df, col["valor"])
       IN  df' = IF col["data"] # None
                 THEN ParseDates(columns, numeric, col["data"])
                 ELSE numeric
    /\ pc' = "kpis"
    /\ UNCHANGED <<raw, columns, col, missing, faturamento_total, qtd_notas,
                   qtd_clientes, mensal, clientes, produtos, concentracao,
                   risco, proj, out>>

\* lines 131-139
MainKPIs ==
    /\ pc = "kpis"
    /\ faturamento_total' = SumSeq(Values(columns, df, col["valor"]))
    /\ qtd_notas' = Len(df)
    /\ qtd_clientes' = NUnique(columns, df, col["cliente"])
    /\ out' = out \cup {"kpis"}
    /\ pc' = "mensal"
    /\ UNCHANGED <<raw, columns, df, col, missing, mensal, clientes, produtos,
                   concentracao, risco, proj>>

\* lines 147-155
MonthlyRevenue ==
    /\ pc = "mensal"
    /\ IF col["data"] # None
       THEN /\ mensal' = Resample(columns, df, col["data"], col["valor"])
            /\ out' = out \cup {"mensal"}
       ELSE UNCHANGED <<mensal, out>>
    /\ pc' = "abc_clientes"
    /\ UNCHANGED <<raw, columns, df, col, missing, faturamento_total,
                   qtd_notas, qtd_clientes, clientes, produtos, concentracao,
                   risco, proj>>

\* lines 165-186
AbcClientes ==
    /\ pc = "abc_clientes"
    /\ clientes' = AbcTable(columns, df, col["cliente"], col["valor"])
    /\ out' = out \cup {"abc_clientes"}
    /\ pc' = "abc_produtos"
    /\ UNCHANGED <<raw, columns, df, col, missing, faturamento_total,
                   qtd_notas, qtd_clientes, mensal, produtos, concentracao,
                   risco, proj>>

\* lines 192-207
AbcProdutos ==
    /\ pc = "abc_produtos"
    /\ IF col["produto"] # None
       THEN /\ produtos' = AbcTable(columns, df, col["produto"], col["valor"])
            /\ out' = out \cup {"abc_produtos"}
       ELSE UNCHANGED <<produtos, out>>
    /\ pc' = "concentracao"
    /\ UNCHANGED <<raw, columns, df, col, missing, faturamento_total,
                   qtd_notas, qtd_clientes, mensal, clientes, concentracao,
                   risco, proj>>

\* top5_clientes[valor].sum() / faturamento_total
Concentracao(tabela, total) ==
    LET top5 == HeadRows(tabela, TopN)
    IN  Quot(SumSeq([i \in 1..Len(top5) |-> top5[i].valor]), total)

\* lines 217-230
ConcentrationRisk ==
    /\ pc = "concentracao"
    /\ concentracao' = Concentracao(clientes, faturamento_total)
    /\ risco' = RiskTier(Concentracao(clientes, faturamento_total))
    /\ out' = out \cup {"risco"}
    /\ pc' = "cfop_cst"
    /\ UNCHANGED <<raw, columns, df, col, missing, faturamento_total,
                   qtd_notas, qtd_clientes, mensal, clientes, produtos, proj>>

\* lines 233-250
FiscalCodes ==
    /\ pc = "cfop_cst"
    /\ out' = out \cup (IF col["cfop"] # None THEN {"cfop"} ELSE {})
                  \cup (IF col["cst"] # None THEN {"cst"} ELSE {})
    /\ pc' = "projecoes"
    /\ UNCHANGED <<raw, columns, df, col, missing, faturamento_total,
                   qtd_notas, qtd_clientes, mensal, clientes, produtos,
                   concentracao, risco, proj>>

\* line 258 with no date column, then line 331
ProjectionSkipped ==
    /\ pc = "projecoes"
    /\ col["data"] = None
    /\ out' = out \cup {"info_final"}
    /\ pc' = "fim"
    /\ UNCHANGED <<raw, columns, df, col, missing, faturamento_total,
                   qtd_notas, qtd_clientes, mensal, clientes, produtos,
                   concentracao, risco, proj>>

\* lines 262-274: no growth step is left, then line 331
ProjectionInsufficient ==
    /\ pc = "projecoes"
    /\ col["data"] # None
    /\ LET m == Resample(columns, df, col["data"], col["valor"])
       IN  /\ PctChange(m) = <<>>
           /\ mensal' = m
    /\ out' = out \cup {"historico", "info_insuficiente", "info_final"}
    /\ pc' = "fim"
    /\ UNCHANGED <<raw, columns, df, col, missing, faturamento_total,
                   qtd_notas, qtd_clientes, clientes, produtos, concentracao,
                   risco, proj>>

\* lines 262-329: the three scenarios and the planned one, then line 331
ProjectionScenarios ==
    /\ pc = "projecoes"
    /\ col["data"] # None
    /\ LET m == Resample(columns, df, col["data"], col["valor"])
           pct == PctChange(m)
       IN  /\ pct # <<>>
           /\ mensal' = m
           /\ \E h \in MinMeses..MaxMeses :
              \E digitada \in PlanRates \cup {Mean(pct)} :
                 LET media == Mean(pct)
                     vol == Std(pct)
                     ultimo == Fin(m[Len(m)].valor * Scale)
                     cen == Cenarios(media, vol)
                 IN  proj' =
                        [mensal_pct |-> pct,
                         crescimento_medio |-> media,
                         volatilidade |-> vol,
                         meses_proj |-> h,
                         ultimo_valor |-> ultimo,
                         cenarios |-> cen,
                         projecoes |->
                            [nome \in ScenarioNames |-> Compound(ultimo, cen[nome], h)],
                         index_future |-> [t \in 1..h |-> m[Len(m)].mes + t],
                         taxa_planejada |-> digitada,
                         planejado |-> Compound(ultimo, digitada, h)]
    /\ out' = out \cup {"historico", "projecao", "planejado", "info_final"}
    /\ pc' = "fim"
    /\ UNCHANGED <<raw, columns, df, col, missing, faturamento_total,
                   qtd_notas, qtd_clientes, clientes, produtos, concentracao,
                   risco>>

Next ==
    \/ NormalizeColumns
    \/ FirstMapping
    \/ FlexibleMapping
    \/ ValidateStop
    \/ ValidatePass
    \/ CoerceTypes
    \/ MainKPIs
    \/ MonthlyRevenue
    \/ AbcClientes
    \/ AbcProdutos
    \/ ConcentrationRisk
    \/ FiscalCodes
    \/ ProjectionSkipped
    \/ ProjectionInsufficient
    \/ ProjectionScenarios

Spec == Init /\ [][Next]_vars

\* ============================================================== properties
Stages ==
    <<"normalizar", "mapear", "mapear_flexivel", "validar", "converter", "kpis",
      "mensal", "abc_clientes", "abc_produtos", "concentracao", "cfop_cst",
      "projecoes", "fim">>

StageNo(p) == CHOOSE i \in 1..Len(Stages) : Stages[i] = p

\* the section p of the script has run, and the run was not stopped
Past(p) == pc # "parado" /\ StageNo(pc) > StageNo(p)

\* the field map is final
Mapped == pc \notin {"normalizar", "mapear", "mapear_flexivel"}

Validated == pc = "parado" \/ Past("validar")

AnalyticsOut ==
    {"kpis", "mensal", "abc_clientes", "abc_produtos", "risco", "cfop", "cst",
     "historico", "info_insuficiente", "projecao", "planejado", "info_final"}

\* the cell of row r of the loaded table under the (normalised) column name
RawCell(r, name) == r[ColIdx(columns, name)]

\* the amount a row of the loaded table stands for: its number, 0 otherwise
RawAmount(r) ==
    IF RawCell(r, col["valor"]).t = "num" THEN RawCell(r, col["valor"]).v ELSE 0

RawTotal(rows) == SumSeq([i \in 1..Len(rows) |-> RawAmount(rows[i])])

RawCustomers(rows) ==
    {RawCell(rows[i], col["cliente"]) : i \in 1..Len(rows)} \ {Null}

\* the rows of the loaded table whose date parses (all rows without a date column)
DatedRows ==
    IF col["data"] = None THEN raw.rows
    ELSE SelectSeq(raw.rows, LAMBDA r : RawCell(r, col["data"]).t = "date")

\* ---------------------------------------------------------------------- C1
\* C1: once validation has run, a required field (valor, cliente) without a
\* column means the run is stopped with the error listing exactly the absent
\* required fields and nothing of the analytics was computed or rendered;
\* with both required fields resolved the run is not stopped.
Thm_C1 ==
    LET absent == {k \in {"valor", "cliente"} : col[k] = None}
    IN  Validated =>
          /\ absent # {} =>
                /\ pc = "parado"
                /\ "erro_colunas" \in out
                /\ Len(missing) = Cardinality(absent)
                /\ {missing[i] : i \in 1..Len(missing)} = absent
                /\ out \cap AnalyticsOut = {}
                /\ mensal = <<>> /\ clientes = <<>> /\ produtos = <<>>
                /\ risco = "nenhum" /\ proj = NoProj
          /\ absent = {} =>
                /\ pc # "parado"
                /\ "erro_colunas" \notin out
                /\ missing = <<>>

\* the amount column is absent and the customer column is not: the error
\* lists exactly valor
Wit_C1 ==
    /\ pc = "parado"
    /\ missing = <<"valor">>
    /\ col["cliente"] # None
    /\ out = {"erro_colunas"}

\* ---------------------------------------------------------------------- C2
IsSeparator(c) == c \in {"_", "-", " "}

RECURSIVE Fold(_)
\* a name without accents, case and separators
Fold(s) ==
    IF Len(s) = 0 THEN ""
    ELSE LET c == LowerChar(Head(s))
         IN  (IF IsSeparator(c) THEN "" ELSE IF c = "ã" THEN "a" ELSE c)
                 \o Fold(Tail(s))

SameLetter(x, y) ==
    \/ x = y
    \/ \E i \in 1..Len(UpperChars) : Char(UpperChars, i) = x /\ Char(LowerChars, i) = y
    \/ x = " " /\ y = "_"

\* name is synonym up to letter case, spaces around it and spaces written
\* for underscores
SameUpToCaseAndSpaces(name, synonym) ==
    \E a, b \in 0..Len(name) :
       /\ a + Len(synonym) + b = Len(name)
       /\ \A i \in 1..a : Char(name, i) = " "
       /\ \A i \in (Len(name) - b + 1)..Len(name) : Char(name, i) = " "
       /\ \A i \in 1..Len(synonym) : SameLetter(Char(name, a + i), Char(synonym, i))

Thm_C3 ==
    pc \notin {"normalizar", "mapear"} =>
       \A k \in Fields :
          LET present == {i \in 1..Len(MAP[k]) :
                            \E j \in 1..Len(columns) : columns[j] = MAP[k][i]}
          IN  /\ col[k] = None <=> present = {}
              /\ present # {} =>
                    /\ col[k] = MAP[k][MinOf(present)]
                    /\ \E j \in 1..Len(columns) : columns[j] = col[k]
                    /\ pc = "validar" =>
                          \E j \in 1..Len(raw.cols) : NormalizeColumn(raw.cols[j]) = col[k]

\* two candidates of the amount are columns; the earlier one in the list wins
\* although it comes later in the table
Wit_C3 ==
    /\ Mapped
    /\ columns = <<"valor_nf", "total">>
    /\ col["valor"] = "total"
    /\ col["cliente"] = None

\* ---------------------------------------------------------------------- C4
\* C4 as stated: rows whose date does not parse stay in the record set: the
\* invoice count, the total revenue and the distinct customers are those of
\* all loaded rows.
Claim_C4 ==
    Past("kpis") =>
       /\ qtd_notas = Len(raw.rows)
       /\ faturamento_total = RawTotal(raw.rows)
       /\ qtd_clientes = Cardinality(RawCustomers(raw.rows))

\* ---------------------------------------------------------------------- C5
\* C5: a row whose amount does not parse is kept by the coercion and counts
\* as amount 0: the record set after coercion has the rows it had before,
\* and the total revenue, the invoice count, the distinct-customer count
\* and every per-customer total are what they would be with 0 in that cell.
Thm_C5 ==
    /\ Past("converter") => Len(df) = Len(DatedRows)
    /\ Past("kpis") =>
          /\ qtd_notas = Len(DatedRows)
          /\ faturamento_total = RawTotal(DatedRows)
          /\ qtd_clientes = Cardinality(RawCustomers(DatedRows))
    /\ Past("abc_clientes") =>
          /\ {S(clientes[i].key) : i \in 1..Len(clientes)} = RawCustomers(DatedRows)
          /\ \A i \in 1..Len(clientes) :
                clientes[i].valor =
                   RawTotal(SelectSeq(DatedRows,
                       LAMBDA r : RawCell(r, col["cliente"]) = S(clientes[i].key)))

\* two invoices, one with a text for amount: both are counted, the text as 0
Wit_C5 ==
    /\ Past("abc_clientes")
    /\ Len(raw.rows) = 2
    /\ RawCell(raw.rows[1], col["valor"]) = Txt
    /\ RawCell(raw.rows[2], col["valor"]) = N(2)
    /\ qtd_notas = 2
    /\ faturamento_total = 2
    /\ qtd_clientes = 2

\* ---------------------------------------------------------------------- C6
ClassRank(c) == CASE c = "A" -> 1 [] c = "B" -> 2 [] c = "C" -> 3

\* the class of a row whose cumulative share is prefix / total
ClassOfShare(prefix, total) ==
    CASE total > 0 ->
            IF 5 * prefix <= 4 * total THEN "A"
            ELSE IF 20 * prefix <= 19 * total THEN "B" ELSE "C"
      [] total < 0 ->
            IF 5 * prefix >= 4 * total THEN "A"
            ELSE IF 20 * prefix >= 19 * total THEN "B" ELSE "C"
      [] OTHER -> "C"

AbcOrdered(t) ==
    LET total == SumSeq([i \in 1..Len(t) |-> t[i].valor])
    IN  /\ \A i, j \in 1..Len(t) :
              i < j => /\ t[i].valor >= t[j].valor
                       /\ ClassRank(t[i].classe_abc) <= ClassRank(t[j].classe_abc)
        /\ \A i \in 1..Len(t) :
              t[i].classe_abc =
                 ClassOfShare(SumSeq([h \in 1..i |-> t[h].valor]), total)

\* C6: in the ABC table of the customers and in that of the products, the
\* rows are in descending order of their total, the classes read in that
\* order never go back (A, then B, then C), and the class of a row is A for
\* a cumulative share <= 0.80, B for one in (0.80, 0.95], C otherwise;
\* zero and negative totals included.
Thm_C6 == AbcOrdered(clientes) /\ AbcOrdered(produtos)

\* six customers, the last with a negative total, whose table shows the
\* three classes, and a table of two products
Wit_C6 ==
    /\ Past("abc_produtos")
    /\ Len(clientes) = TopN + 1
    /\ clientes[TopN + 1].valor < 0
    /\ {clientes[i].classe_abc : i \in 1..Len(clientes)} = {"A", "B", "C"}
    /\ Len(produtos) = 2
    /\ produtos[1].classe_abc # produtos[2].classe_abc

\* ---------------------------------------------------------------------- C7
\* C7 as stated: the concentration is the sum of the 5 largest customer
\* totals over the total revenue, and it is 0, with the tier of the ratio 0,
\* when the total revenue is 0.
Claim_C7 ==
    Past("concentracao") =>
       LET n == IF Len(clientes) < 5 THEN Len(clientes) ELSE 5
           top == SumSeq([i \in 1..n |-> clientes[i].valor])
       IN  /\ faturamento_total # 0 => concentracao = Frac(top, faturamento_total)
           /\ faturamento_total = 0 =>
                 /\ concentracao.k = "fin" /\ concentracao.n = 0
                 /\ risco = "baixo"

\* ---------------------------------------------------------------------- C8
\* p is v compounded h times at rate r, without v itself
Compounds(p, v, r, h) ==
    /\ Len(p) = h
    /\ p[1] = XMul(v, XAdd(One, r))
    /\ \A t \in 2..h : p[t] = XMul(p[t - 1], XAdd(One, r))

\* C8: every scenario's projection (conservative, base, optimistic, planned)
\* has exactly h values, the first is v * (1 + r) and each later one is the
\* one before times (1 + r), for the scenario's rate r, the horizon h >= 1
\* and the last observed monthly value v, which all four share and which is
\* not part of the output.
Thm_C8 ==
    "projecao" \in out =>
       LET h == proj.meses_proj
           v == Fin(mensal[Len(mensal)].valor * Scale)
       IN  /\ h >= 1
           /\ proj.ultimo_valor = v
           /\ \A nome \in ScenarioNames :
                 Compounds(proj.projecoes[nome], v, proj.cenarios[nome], h)
           /\ Compounds(proj.planejado, v, proj.taxa_planejada, h)

\* a growing history with some volatility: three different scenario paths
\* that leave the anchor behind, and a planned one typed by the user
Wit_C8 ==
    /\ "projecao" \in out
    /\ proj.ultimo_valor.v > 0
    /\ IsFinite(proj.volatilidade) /\ proj.volatilidade.v > 0
    /\ IsFinite(proj.crescimento_medio) /\ proj.crescimento_medio.v > 0
    /\ proj.projecoes["Base"][1] # proj.ultimo_valor
    /\ proj.projecoes["Conservador"] # proj.projecoes["Base"]
    /\ proj.projecoes["Otimista"] # proj.projecoes["Base"]
    /\ proj.taxa_planejada # proj.crescimento_medio

\* ---------------------------------------------------------------------- C9
AllDefined(p) == \A t \in 1..Len(p) : IsDefined(p[t])
AllFinite(p) == \A t \in 1..Len(p) : IsFinite(p[t])

\* C9 as stated: "insufficient data" is reported exactly when the monthly
\* series has at most 1 point, and a series of at least 2 points gets a
\* projection with a defined value for each of the four scenarios.
Claim_C9 ==
    pc = "fim" /\ col["data"] # None =>
       /\ "info_insuficiente" \in out <=> Len(mensal) <= 1
       /\ "info_insuficiente" \in out => "projecao" \notin out
       /\ Len(mensal) >= 2 =>
             /\ "projecao" \in out
             /\ \A nome \in ScenarioNames :
                   AllDefined(proj.projecoes[nome])
             /\ AllDefined(proj.planejado)

\* --------------------------------------------------------------------- C10
\* C10 as stated: when a month of revenue 0 is followed by another month,
\* the mean growth, the volatility and every projected value are finite.
Claim_C10 ==
    /\ "projecao" \in out
    /\ \E i \in 1..(Len(mensal) - 1) : mensal[i].valor = 0
    => /\ IsFinite(proj.crescimento_medio)
       /\ IsFinite(proj.volatilidade)
       /\ \A nome \in ScenarioNames :
             AllFinite(proj.projecoes[nome])
       /\ AllFinite(proj.planejado)

====
